---- MODULE Spec2Model ----
(***************************************************************************)
(* A model of pdf_blur_tool.py: the selection tracker (MosaicScene), the   *)
(* page store and the region editor (PDFMosaicApp).                        *)
(*                                                                         *)
(* Scene positions are floating-point in the program.  They are modelled   *)
(* in fixed point: a coordinate u stands for u / Scale pixels, so that     *)
(* Python's int() is a real truncation and not the identity.               *)
(*                                                                         *)
(* An optional value (Python's None or an object) is a sequence of length  *)
(* 0 or 1.                                                                 *)
(***************************************************************************)
EXTENDS Integers, Sequences, FiniteSets, TLC

\* ------------------------------------------------------------------ bounds

\* Sub-pixel resolution of the modelled positions: units per pixel.
Scale == 2

\* The rasterizer returns documents of 0..MaxPages pages.
MaxPages == 2

\* At most this many selection rectangles are ever in the scene at once
\* (a left press adds one; only a left press without a release leaks one).
MaxRects == 2

\* ------------------------------------------------------- program constants

\* rect.width() > 5 and rect.height() > 5
MinSelection == 5

\* block_size = 8
block_size == 8

\* np.random.choice([0, 255], ...)
Black == 0

White == 255

\* ------------------------------------------------------------ arithmetic

Max(a, b) == IF a >= b THEN a ELSE b

Min(a, b) == IF a <= b THEN a ELSE b

\* Python's int() of a float: truncation toward zero, in pixels.
PyInt(u) == IF u >= 0 THEN u \div Scale ELSE -((-u) \div Scale)

\* ------------------------------------------------------ points, rectangles

Pt(x, y) == [x |-> x, y |-> y]

Half == Scale \div 2

\* The scene positions the pointer visits, in pixels at Scale 2: (-5,-5),
\* (2.5,2.5), (8.5,8), (7.5,9).  Positions outside the page are ordinary scene
\* positions.  Between them the rectangles are wider and higher than 5
\* (partly on the page, or right of and below a 2x2 page), exactly 5 wide, or
\* narrower.
Points == { Pt(-5 * Scale, -5 * Scale),
            Pt(2 * Scale + Half, 2 * Scale + Half),
            Pt(8 * Scale + Half, 8 * Scale),
            Pt(7 * Scale + Half, 9 * Scale) }

Buttons == {"LeftButton", "RightButton"}

\* QRectF(topLeft, bottomRight): the width and height may be negative.
QRectF(p, q) == [x |-> p.x, y |-> p.y, w |-> q.x - p.x, h |-> q.y - p.y]

\* A faulty variant of normalized: the call is forgotten.
normalizedForgotten(r) == r

\* QRectF.normalized(): the same rectangle with non-negative width and height.
normalized(r) == [x |-> IF r.w < 0 THEN r.x + r.w ELSE r.x,
                  y |-> IF r.h < 0 THEN r.y + r.h ELSE r.y,
                  w |-> IF r.w < 0 THEN -r.w ELSE r.w,
                  h |-> IF r.h < 0 THEN -r.h ELSE r.h]

\* A faulty variant of LargeEnough: one side over the threshold is enough.
LargeEnoughEither(rect) == rect.w > MinSelection * Scale \/ rect.h > MinSelection * Scale

\* rect.width() > 5 and rect.height() > 5
LargeEnough(rect) == rect.w > MinSelection * Scale /\ rect.h > MinSelection * Scale

\* ------------------------------------------------------------------ pages

\* Image.convert from mode L: the single channel is replicated, alpha is opaque.
FromL(v, mode) == IF mode = "RGBA" THEN <<v, v, v, 255>> ELSE <<v, v, v>>

\* Image.convert of one pixel between RGB and RGBA.
ConvertPixel(p, mode) ==
    IF mode = "RGBA" THEN <<p[1], p[2], p[3], IF Len(p) = 4 THEN p[4] ELSE 255>>
    ELSE <<p[1], p[2], p[3]>>

\* Image.convert(mode): same size, every pixel converted.
Convert(img, mode) ==
    [mode |-> mode, w |-> img.w, h |-> img.h,
     px |-> [c \in DOMAIN img.px |-> ConvertPixel(img.px[c], mode)]]

Cells(w, h) == (0 .. w - 1) \X (0 .. h - 1)

\* What the rasterizer yields: page k of an n-page document.  Page 1 is 3x3,
\* page 2 is 2x2, later pages are 1x2; the colours depend on the document, the
\* page and the position, and none is black or white.
PageW(k) == IF k = 1 THEN 3 ELSE IF k = 2 THEN 2 ELSE 1

PageH(k) == IF k = 1 THEN 3 ELSE 2

PageMode(k) == IF k = 2 THEN "RGBA" ELSE "RGB"

RasterPixel(n, k, c, mode) ==
    LET g == 20 + 40 * n + 10 * k + 3 * c[1] + c[2]
    IN  IF mode = "RGBA" THEN <<g, g + 1, g + 2, 200>> ELSE <<g, g + 1, g + 2>>

RasterPage(n, k) ==
    [mode |-> PageMode(k), w |-> PageW(k), h |-> PageH(k),
     px |-> [c \in Cells(PageW(k), PageH(k)) |-> RasterPixel(n, k, c, PageMode(k))]]

\* convert_from_path(file_path, dpi=300) when it returns: a list of pages.
Document(n) == [k \in 1 .. n |-> RasterPage(n, k)]

Documents == { Document(n) : n \in 0 .. MaxPages }

\* ------------------------------------------------------------------ state

VARIABLES
    pages_images,        \* PDFMosaicApp.pages_images: the held pages
    current_page_index,  \* PDFMosaicApp.current_page_index (0-based)
    start_point,         \* MosaicScene.start_point (optional)
    current_rect_item,   \* MosaicScene.current_rect_item: its rect (optional)
    is_drawing,          \* MosaicScene.is_drawing
    rect_items,          \* number of selection rectangles among the scene's items
    pixmap,              \* the page image shown in the scene (optional)
    lbl_page,            \* the status label
    prev_btn,            \* prev_btn.isEnabled()
    next_btn,            \* next_btn.isEnabled()
    last                 \* the handler that ran last, its inputs and its outputs

vars == <<pages_images, current_page_index, start_point, current_rect_item,
          is_drawing, rect_items, pixmap, lbl_page, prev_btn, next_btn, last>>

scene_vars == <<start_point, current_rect_item, is_drawing>>

\* The record of a handler run: op is the handler, button the button of its
\* mouse event, emitted the rectangles sent through area_selected, msg the
\* message box shown, written the document written to disk, loaded what the
\* rasterizer did.
Ran(op) == [op |-> op, button |-> "none", emitted |-> <<>>,
            msg |-> "none", written |-> <<>>, loaded |-> "none"]

Label(text, x, n) == [text |-> text, x |-> x, n |-> n]

Init ==
    /\ pages_images = <<>>
    /\ current_page_index = 0
    /\ start_point = <<>>
    /\ current_rect_item = <<>>
    /\ is_drawing = FALSE
    /\ rect_items = 0
    /\ pixmap = <<>>
    /\ lbl_page = Label("No PDF Loaded", 0, 0)
    /\ prev_btn = FALSE
    /\ next_btn = FALSE
    /\ last = Ran("init")

\* ---------------------------------------------------------- the display

\* list[idx] in Python: a negative index counts from the end.  The value is
\* the 1-based position, which is a position of the list or raises IndexError.
PyIndex(pages, idx) == IF idx < 0 THEN Len(pages) + idx + 1 ELSE idx + 1

\* update_display: nothing without pages; else the scene is cleared (every
\* item, selection rectangles included, is deleted), the current page is
\* shown as RGBA and the label reads "Page: X / N".  lbl is the label's
\* text when update_display is entered.  Its first statement indexes the
\* page list: an IndexError there leaves the display as it was.
update_display(pages, idx, rects, lbl) ==
    IF pages = <<>> \/ PyIndex(pages, idx) \notin DOMAIN pages
    THEN /\ pixmap' = pixmap
         /\ rect_items' = rects
         /\ lbl_page' = lbl
    ELSE /\ pixmap' = <<Convert(pages[PyIndex(pages, idx)], "RGBA")>>
         /\ rect_items' = 0
         /\ lbl_page' = Label("Page", idx + 1, Len(pages))

\* A faulty variant of update_controls: next stays enabled on the last page.
update_controlsLastPage(pages, idx) ==
    /\ prev_btn' = (idx > 0)
    /\ next_btn' = (idx < Len(pages))

\* update_controls
update_controls(pages, idx) ==
    /\ prev_btn' = (idx > 0)
    /\ next_btn' = (idx < Len(pages) - 1)

\* --------------------------------------------------------- RegionEditor

\* x1, y1 = max(0, int(x)), max(0, int(y));
\* x2, y2 = min(img_w, int(x + width)), min(img_h, int(y + height))
ClampBox(img, rect) ==
    [x1 |-> Max(0, PyInt(rect.x)), y1 |-> Max(0, PyInt(rect.y)),
     x2 |-> Min(img.w, PyInt(rect.x + rect.w)),
     y2 |-> Min(img.h, PyInt(rect.y + rect.h))]

\* A faulty variant of TooSmall: only an empty region is refused.
TooSmallEmptyOnly(box) == box.x2 - box.x1 <= 0 \/ box.y2 - box.y1 <= 0

\* if w <= 1 or h <= 1: return
TooSmall(box) == box.x2 - box.x1 <= 1 \/ box.y2 - box.y1 <= 1

\* num_blocks = max(1, dimension // block_size)
num_blocks(d) == Max(1, d \div block_size)

\* np.random.choice([0, 255], size=(num_blocks_h, num_blocks_w)): every grid
\* the generator can draw, indexed by (column, row).
RandomGrids(nbw, nbh) == [Cells(nbw, nbh) -> {Black, White}]

\* A faulty variant of resize: output pixel (i, j) reads the cell at
\* int(i * nbw / w), int(j * nbh / h), the pixel's corner instead of its centre.
resizeCorner(grid, nbw, nbh, w, h) ==
    [c \in Cells(w, h) |->
        grid[<<(c[1] * nbw) \div w, (c[2] * nbh) \div h>>]]

\* Image.resize((w, h), NEAREST) of the nbw x nbh grid: output pixel (i, j)
\* reads the cell at int((i + 0.5) * nbw / w), int((j + 0.5) * nbh / h).
resize(grid, nbw, nbh, w, h) ==
    [c \in Cells(w, h) |->
        grid[<<((2 * c[1] + 1) * nbw) \div (2 * w),
               ((2 * c[2] + 1) * nbh) \div (2 * h)>>]]

\* final_mosaic.convert(pil_img.mode)
ConvertRegion(region, mode) == [c \in DOMAIN region |-> FromL(region[c], mode)]

\* A faulty variant of paste: the region is written one column to the right.
pasteShifted(img, region, box) ==
    [img EXCEPT !.px =
        [c \in DOMAIN img.px |->
            IF /\ box.x1 + 1 <= c[1] /\ c[1] < box.x2 + 1
               /\ box.y1 <= c[2] /\ c[2] < box.y2
            THEN region[<<c[1] - box.x1 - 1, c[2] - box.y1>>]
            ELSE img.px[c]]]

\* pil_img.paste(final_region, (x1, y1, x2, y2)): in place, same size and mode.
paste(img, region, box) ==
    [img EXCEPT !.px =
        [c \in DOMAIN img.px |->
            IF /\ box.x1 <= c[1] /\ c[1] < box.x2
               /\ box.y1 <= c[2] /\ c[2] < box.y2
            THEN region[<<c[1] - box.x1, c[2] - box.y1>>]
            ELSE img.px[c]]]

\* The page after the mosaic drawn from grid is pasted into box.
Mosaic(img, box, grid) ==
    LET w == box.x2 - box.x1
        h == box.y2 - box.y1
    IN  paste(img,
              ConvertRegion(resize(grid, num_blocks(w), num_blocks(h), w, h), img.mode),
              box)

\* apply_mosaic(rect_f), the slot of area_selected, entered with rects
\* selection rectangles in the scene: nothing without pages or for a region
\* of at most one pixel across; else the current page is edited in place
\* and shown again.
apply_mosaic(rect_f, rects) ==
    IF pages_images = <<>>
    THEN /\ UNCHANGED <<pages_images, pixmap, lbl_page>>
         /\ rect_items' = rects
    ELSE LET pil_img == pages_images[PyIndex(pages_images, current_page_index)]
             box == ClampBox(pil_img, rect_f)
         IN  IF TooSmall(box)
             THEN /\ UNCHANGED <<pages_images, pixmap, lbl_page>>
                  /\ rect_items' = rects
             ELSE \E grid \in RandomGrids(num_blocks(box.x2 - box.x1),
                                          num_blocks(box.y2 - box.y1)) :
                    /\ pages_images' =
                          [pages_images EXCEPT ![PyIndex(pages_images, current_page_index)] =
                              Mosaic(pil_img, box, grid)]
                    /\ update_display(pages_images', current_page_index,
                                      rects, lbl_page)

\* ------------------------------------------------------ SelectionTracker

\* mousePressEvent: a left press records the anchor, starts drawing and adds
\* a zero-size selection rectangle to the scene.
mousePressEvent(button, pos) ==
    /\ button = "LeftButton" => rect_items < MaxRects
    /\ IF button = "LeftButton"
       THEN /\ start_point' = <<pos>>
            /\ is_drawing' = TRUE
            /\ current_rect_item' = <<QRectF(pos, pos)>>
            /\ rect_items' = rect_items + 1
       ELSE UNCHANGED <<start_point, is_drawing, current_rect_item, rect_items>>
    /\ last' = [Ran("mousePressEvent") EXCEPT !.button = button]
    /\ UNCHANGED <<pages_images, current_page_index, pixmap, lbl_page,
                   prev_btn, next_btn>>

\* A faulty variant of Tracking: the anchor is tested instead of is_drawing.
TrackingAnchored == start_point # <<>>

\* if self.is_drawing and self.current_rect_item
Tracking == is_drawing /\ current_rect_item # <<>>

\* mouseMoveEvent: while drawing, the selection rectangle becomes the
\* normalized rectangle of the anchor and the pointer.
mouseMoveEvent(pos) ==
    /\ IF Tracking
       THEN current_rect_item' =
                <<normalized(QRectF(start_point[1], pos))>>
       ELSE UNCHANGED current_rect_item
    /\ last' = Ran("mouseMoveEvent")
    /\ UNCHANGED <<pages_images, current_page_index, start_point, is_drawing,
                   rect_items, pixmap, lbl_page, prev_btn, next_btn>>

\* if self.is_drawing and event.button() == Qt.MouseButton.LeftButton
Releasing(button) == is_drawing /\ button = "LeftButton"

\* mouseReleaseEvent: a left release while drawing stops drawing, takes the
\* selection rectangle's rect, removes the rectangle from the scene and, if
\* the rect is large enough, emits it through area_selected, whose slot
\* apply_mosaic runs before the handler returns.
mouseReleaseEvent(button, pos) ==
    /\ IF Releasing(button)
       THEN /\ is_drawing' = FALSE
            /\ IF current_rect_item # <<>>
               THEN LET rect == current_rect_item[1]
                    IN  /\ current_rect_item' = <<>>
                        /\ IF LargeEnough(rect)
                           THEN /\ last' = [Ran("mouseReleaseEvent") EXCEPT
                                              !.button = button, !.emitted = <<rect>>]
                                /\ apply_mosaic(rect, rect_items - 1)
                           ELSE /\ last' = [Ran("mouseReleaseEvent") EXCEPT !.button = button]
                                /\ rect_items' = rect_items - 1
                                /\ UNCHANGED <<pages_images, pixmap, lbl_page>>
               ELSE /\ last' = [Ran("mouseReleaseEvent") EXCEPT !.button = button]
                    /\ UNCHANGED <<current_rect_item, rect_items, pages_images,
                                   pixmap, lbl_page>>
       ELSE /\ last' = [Ran("mouseReleaseEvent") EXCEPT !.button = button]
            /\ UNCHANGED <<is_drawing, current_rect_item, rect_items,
                           pages_images, pixmap, lbl_page>>
    /\ UNCHANGED <<current_page_index, start_point, prev_btn, next_btn>>

\* ------------------------------------------------------------ PageStore

\* File paths, as sequences of characters.
Paths == { <<"a", ".", "P", "d", "f">>,
           <<"p", "d", "f">> }

\* str.lower() of one character of the paths above.
LowerChar(c) == IF c = "P" THEN "p" ELSE c

\* str.lower()
lower(s) == [i \in 1 .. Len(s) |-> LowerChar(s[i])]

\* str.endswith(suffix)
endswith(s, suffix) ==
    /\ Len(s) >= Len(suffix)
    /\ SubSeq(s, Len(s) - Len(suffix) + 1, Len(s)) = suffix

dot_pdf == <<".", "p", "d", "f">>

\* What convert_from_path does for a load: it raises, or returns a document.
RasterOutcomes == { <<>> } \cup { <<d>> : d \in Documents }

\* A faulty variant of PagesAfterLoadError: the held pages are dropped before the
\* rasterizer is called.
PagesAfterLoadErrorCleared(pages) == <<>>

\* self.pages_images = convert_from_path(...) when the call raises: the
\* assignment does not happen.
PagesAfterLoadError(pages) == pages

\* A faulty variant of IndexAfterLoad: the index is not reset.
IndexAfterLoadKept(idx) == idx

\* self.current_page_index = 0
IndexAfterLoad(idx) == 0

\* load_pdf(file_path), with the rasterizer's outcome.  The label is set to
\* "Rendering High Quality..." first; on an exception only a message box
\* follows.
load_pdf(outcome, op) ==
    IF outcome = <<>>
    THEN /\ pages_images' = PagesAfterLoadError(pages_images)
         /\ lbl_page' = Label("Rendering High Quality...", 0, 0)
         /\ last' = [Ran(op) EXCEPT !.loaded = "raised", !.msg = "critical"]
         /\ UNCHANGED <<current_page_index, pixmap, rect_items, prev_btn, next_btn>>
    ELSE /\ pages_images' = outcome[1]
         /\ current_page_index' = IndexAfterLoad(current_page_index)
         /\ update_display(pages_images', current_page_index', rect_items,
                           Label("Rendering High Quality...", 0, 0))
         /\ update_controls(pages_images', current_page_index')
         /\ last' = [Ran(op) EXCEPT !.loaded = "returned"]

\* The toolbar's actions and drops are delivered between gestures: while the
\* left button is held on the canvas the view grabs the mouse.
BetweenGestures == ~is_drawing

\* The first dropped file whose lower-cased name ends in ".pdf", if any.
FirstPdf(files) ==
    LET hits == { i \in 1 .. Len(files) : endswith(lower(files[i]), dot_pdf) }
    IN  IF hits = {} THEN <<>>
        ELSE <<files[CHOOSE i \in hits : \A j \in hits : i <= j]>>

\* dropEvent: loads the first dropped file that ends in .pdf, ignoring case.
dropEvent(files, outcome) ==
    /\ BetweenGestures
    /\ IF FirstPdf(files) # <<>>
       THEN load_pdf(outcome, "dropEvent")
       ELSE /\ last' = Ran("dropEvent")
            /\ UNCHANGED <<pages_images, current_page_index, pixmap, lbl_page,
                           rect_items, prev_btn, next_btn>>
    /\ UNCHANGED scene_vars

\* open_pdf_dialog: loads the file the dialog returns, unless it is cancelled
\* (fname is then empty).
open_pdf_dialog(fname, outcome) ==
    /\ BetweenGestures
    /\ IF fname # <<>>
       THEN load_pdf(outcome, "open_pdf_dialog")
       ELSE /\ last' = Ran("open_pdf_dialog")
            /\ UNCHANGED <<pages_images, current_page_index, pixmap, lbl_page,
                           rect_items, prev_btn, next_btn>>
    /\ UNCHANGED scene_vars

\* A faulty variant of CanPrev: page 0 is not excluded.
CanPrevAlways(idx) == TRUE

\* if self.current_page_index > 0
CanPrev(idx) == idx > 0

\* A faulty variant of CanNext: off by one.
CanNextOffByOne(idx, n) == idx < n

\* if self.current_page_index < len(self.pages_images) - 1
CanNext(idx, n) == idx < n - 1

\* prev_page
prev_page ==
    /\ BetweenGestures
    /\ IF CanPrev(current_page_index)
       THEN /\ current_page_index' = current_page_index - 1
            /\ update_display(pages_images, current_page_index', rect_items, lbl_page)
            /\ update_controls(pages_images, current_page_index')
       ELSE UNCHANGED <<current_page_index, pixmap, lbl_page, rect_items,
                        prev_btn, next_btn>>
    /\ last' = Ran("prev_page")
    /\ UNCHANGED <<pages_images, scene_vars>>

\* next_page
next_page ==
    /\ BetweenGestures
    /\ IF CanNext(current_page_index, Len(pages_images))
       THEN /\ current_page_index' = current_page_index + 1
            /\ update_display(pages_images, current_page_index', rect_items, lbl_page)
            /\ update_controls(pages_images, current_page_index')
       ELSE UNCHANGED <<current_page_index, pixmap, lbl_page, rect_items,
                        prev_btn, next_btn>>
    /\ last' = Ran("next_page")
    /\ UNCHANGED <<pages_images, scene_vars>>

\* pdf_pages = [img.convert("RGB") for img in self.pages_images]
pdf_pages(pages) == [k \in DOMAIN pages |-> Convert(pages[k], "RGB")]

\* A faulty variant of SavedDocument: every page is appended after the first.
SavedDocumentAppendAll(pp) == <<pp[1]>> \o pp

\* pdf_pages[0].save(save_path, "PDF", save_all=True,
\* append_images=pdf_pages[1:]): the pages handed to the PDF writer, the
\* first one followed by the appended ones.
SavedDocument(pp) == <<pp[1]>> \o SubSeq(pp, 2, Len(pp))

\* A faulty variant of PagesAfterSave: the converted pages replace the held ones.
PagesAfterSaveConverted(pages) == pdf_pages(pages)

\* The held pages after the conversion for saving: convert returns new
\* images and the held list is not assigned.
PagesAfterSave(pages) == pages

\* save_pdf: nothing without pages or when the path prompt is cancelled
\* (save_path is then empty); else every page is converted to RGB and the
\* pages are written as one document, which succeeds or raises.
save_pdf(save_path, writes) ==
    /\ BetweenGestures
    /\ IF pages_images = <<>> \/ save_path = <<>>
       THEN /\ last' = Ran("save_pdf")
            /\ UNCHANGED pages_images
       ELSE /\ pages_images' = PagesAfterSave(pages_images)
            /\ IF writes
               THEN last' = [Ran("save_pdf") EXCEPT
                               !.written = <<SavedDocument(pdf_pages(pages_images))>>,
                               !.msg = "information"]
               ELSE last' = [Ran("save_pdf") EXCEPT !.msg = "critical"]
    /\ UNCHANGED <<current_page_index, scene_vars, pixmap,
                   lbl_page, rect_items, prev_btn, next_btn>>

\* ---------------------------------------------------------- specification

\* What a drop carries: no file, one file, or two different files.
Drops == { <<>> } \cup { <<f>> : f \in Paths }
            \cup { fg \in Paths \X Paths : fg[1] # fg[2] }

Next ==
    \/ \E b \in Buttons, p \in Points : mousePressEvent(b, p)
    \/ \E p \in Points : mouseMoveEvent(p)
    \/ \E b \in Buttons, p \in Points : mouseReleaseEvent(b, p)
    \/ \E fs \in Drops, o \in RasterOutcomes : dropEvent(fs, o)
    \/ \E f \in {<<>>} \cup Paths, o \in RasterOutcomes : open_pdf_dialog(f, o)
    \/ prev_page
    \/ next_page
    \/ \E path \in {<<>>} \cup Paths, writes \in BOOLEAN : save_pdf(path, writes)

Spec == Init /\ [][Next]_vars

\* ---------------------------------------------- editing large pages

\* The long side, in pixels, of a page large enough for a mosaic of more
\* than one cell along an axis.
WideSide == 17

\* What the rasterizer yields for a document of two such pages: page 1 is
\* WideSide x 2 and RGBA, page 2 is 2 x WideSide and RGB; none of their
\* colours is black or white.
WidePage(k) ==
    LET w == IF k = 1 THEN WideSide ELSE 2
        h == IF k = 1 THEN 2 ELSE WideSide
    IN  [mode |-> IF k = 1 THEN "RGBA" ELSE "RGB", w |-> w, h |-> h,
         px |-> [c \in Cells(w, h) |->
                    LET g == 20 + 50 * k + 3 * c[1] + c[2]
                    IN  IF k = 1 THEN <<g, g + 1, g + 2, 200>> ELSE <<g, g + 1, g + 2>>]]

WideDocument == [k \in 1 .. 2 |-> WidePage(k)]

\* Pointer positions around those pages: beyond the top-left corner, beyond
\* the bottom-right corner of both, and right of both at height 6.5.
WidePoints == { Pt(-5 * Scale, -5 * Scale),
                Pt((WideSide + 3) * Scale, (WideSide + 3) * Scale),
                Pt((WideSide + 3) * Scale, 6 * Scale + Half) }

\* The state after that document has been dropped on a fresh window and
\* loaded.
InitWide ==
    /\ pages_images = WideDocument
    /\ current_page_index = 0
    /\ start_point = <<>>
    /\ current_rect_item = <<>>
    /\ is_drawing = FALSE
    /\ rect_items = 0
    /\ pixmap = <<Convert(WideDocument[1], "RGBA")>>
    /\ lbl_page = Label("Page", 1, Len(WideDocument))
    /\ prev_btn = FALSE
    /\ next_btn = TRUE
    /\ last = [Ran("dropEvent") EXCEPT !.loaded = "returned"]

\* The gestures on the canvas and the page navigation.
NextWide ==
    \/ \E b \in Buttons, p \in WidePoints : mousePressEvent(b, p)
    \/ \E p \in WidePoints : mouseMoveEvent(p)
    \/ \E b \in Buttons, p \in WidePoints : mouseReleaseEvent(b, p)
    \/ prev_page
    \/ next_page

SpecWide == InitWide /\ [][NextWide]_vars

\* ================================================================ claims

\* What the claims call a step of a handler.
Idle == ~is_drawing

Dragging == is_drawing

\* The step is mouseReleaseEvent for the left button: end(point).
EndStep == last'.op = "mouseReleaseEvent" /\ last'.button = "LeftButton"

\* The step handed a rectangle to the editor.
EditStep == last'.op = "mouseReleaseEvent" /\ last'.emitted # <<>>

\* The normalized bounding box of two points.
BoundingBox(a, p) ==
    [x |-> Min(a.x, p.x), y |-> Min(a.y, p.y),
     w |-> Max(a.x, p.x) - Min(a.x, p.x), h |-> Max(a.y, p.y) - Min(a.y, p.y)]

\* Both sides of r exceed 5 pixels.
ExceedsThreshold(r) == r.w > MinSelection * Scale /\ r.h > MinSelection * Scale

\* ---------------------------------------------------------------- C1
\* C1: in every reachable state, whenever the held page list is non-empty,
\* 0 <= current_page_index < number of held pages.
C1_IndexInRange ==
    pages_images # <<>> =>
        /\ 0 <= current_page_index
        /\ current_page_index < Len(pages_images)

\* The last page of a document of several pages was reached by next_page.
C1_Witness ==
    /\ last.op = "next_page"
    /\ Len(pages_images) >= 2
    /\ current_page_index = Len(pages_images) - 1

\* ---------------------------------------------------------------- C2
\* Pixel c lies in the clamped rectangle [x1,x2) x [y1,y2).
InBox(c, box) ==
    /\ box.x1 <= c[1] /\ c[1] < box.x2
    /\ box.y1 <= c[2] /\ c[2] < box.y2

\* C2: a step that hands a rectangle to the editor leaves every pixel of the
\* current page outside the clamped rectangle unchanged, leaves the page's
\* dimensions (and mode) unchanged, and leaves every other page unchanged.
C2_EditFrame ==
    [][EditStep =>
        /\ DOMAIN pages_images' = DOMAIN pages_images
        /\ \A k \in DOMAIN pages_images :
              LET old == pages_images[k]
                  new == pages_images'[k]
                  box == ClampBox(old, last'.emitted[1])
              IN  IF k = current_page_index + 1
                  THEN /\ new.w = old.w /\ new.h = old.h /\ new.mode = old.mode
                       /\ DOMAIN new.px = DOMAIN old.px
                       /\ \A c \in DOMAIN old.px :
                             ~InBox(c, box) => new.px[c] = old.px[c]
                  ELSE new = old]_vars

\* An edit has just painted a region of the current page that leaves pixels of
\* the page outside it, in a document that has another page.
C2_Witness ==
    /\ last.op = "mouseReleaseEvent"
    /\ last.emitted # <<>>
    /\ Len(pages_images) >= 2
    /\ LET img == pages_images[current_page_index + 1]
           box == ClampBox(img, last.emitted[1])
       IN  /\ ~TooSmall(box)
           /\ \E c \in DOMAIN img.px : ~InBox(c, box)
           /\ \E c \in DOMAIN img.px :
                 InBox(c, box) /\ img.px[c] \in {FromL(Black, img.mode),
                                                 FromL(White, img.mode)}

\* ---------------------------------------------------------------- C3
\* The extent of rect clamped to the page as the claim writes it, without
\* truncation, in units of 1/Scale pixel: min(W, x+w) - max(0, x).
ClampedWidth(img, rect) == Min(img.w * Scale, rect.x + rect.w) - Max(0, rect.x)

ClampedHeight(img, rect) == Min(img.h * Scale, rect.y + rect.h) - Max(0, rect.y)

\* C3: a rectangle whose clamped extent is at most 1 pixel wide or high makes
\* the edit the identity: no pixel of any page changes.
C3_DegenerateIdentity ==
    [][(/\ EditStep
        /\ pages_images # <<>>
        /\ LET img == pages_images[current_page_index + 1]
               rect == last'.emitted[1]
           IN  \/ ClampedWidth(img, rect) <= Scale
               \/ ClampedHeight(img, rect) <= Scale)
       => pages_images' = pages_images]_vars

\* A rectangle was handed to the editor that overlaps the current page by a
\* strip at most one pixel wide.
C3_Witness ==
    /\ last.op = "mouseReleaseEvent"
    /\ last.emitted # <<>>
    /\ pages_images # <<>>
    /\ LET img == pages_images[current_page_index + 1]
       IN  /\ ClampedWidth(img, last.emitted[1]) > 0
           /\ ClampedWidth(img, last.emitted[1]) <= Scale
           /\ ClampedHeight(img, last.emitted[1]) > 0

\* ---------------------------------------------------------------- C4
\* C4: end(point) in state Dragging returns the tracker to Idle, and what it
\* emits is at most one rectangle, whose width and height both exceed 5.
C4_EndThreshold ==
    [][(Dragging /\ EndStep) =>
        /\ Idle'
        /\ Len(last'.emitted) <= 1
        /\ \A i \in DOMAIN last'.emitted : ExceedsThreshold(last'.emitted[i])]_vars

\* A gesture has just ended with a rectangle emitted.
C4_Witness ==
    /\ last.op = "mouseReleaseEvent"
    /\ last.button = "LeftButton"
    /\ last.emitted # <<>>
    /\ Idle

C6_EndUsesItsPoint ==
    [][\A p \in Points :
        (Dragging /\ EndStep /\ start_point # <<>>)
        => last'.emitted = IF ExceedsThreshold(BoundingBox(start_point[1], p))
                           THEN <<BoundingBox(start_point[1], p)>>
                           ELSE <<>>]_vars

\* ---------------------------------------------------------------- C7
\* C7: update(point) and end(point) delivered while the tracker is Idle are
\* no-ops: the tracker stays Idle, no live rectangle is created, nothing is
\* emitted and no page is edited.
C7_IdleNoOp ==
    [][(Idle /\ last'.op \in {"mouseMoveEvent", "mouseReleaseEvent"}) =>
        /\ Idle'
        /\ UNCHANGED <<start_point, current_rect_item, rect_items,
                       pages_images, current_page_index, pixmap>>
        /\ last'.emitted = <<>>]_vars

\* An update has just been delivered after the previous gesture ended.
C7_Witness ==
    /\ last.op = "mouseMoveEvent"
    /\ Idle
    /\ start_point # <<>>
    /\ current_rect_item = <<>>

\* ---------------------------------------------------------------- C8
\* C8: a load in which the rasterizer raises leaves the held page list and
\* the current page index as they were.
C8_FailedLoadKeepsDocument ==
    [][last'.loaded = "raised" => UNCHANGED <<pages_images, current_page_index>>]_vars

\* A load has just failed while a page other than the first of a document
\* was being viewed.
C8_Witness ==
    /\ last.loaded = "raised"
    /\ last.msg = "critical"
    /\ pages_images # <<>>
    /\ current_page_index > 0

\* ---------------------------------------------------------------- C9
\* C9: a load in which the rasterizer returns makes the held pages exactly a
\* sequence the rasterizer yields and the current page index 0.
C9_LoadReplaces ==
    [][last'.loaded = "returned" =>
        /\ pages_images' \in Documents
        /\ current_page_index' = 0]_vars

\* A load has just returned a document of several pages.
C9_Witness ==
    /\ last.loaded = "returned"
    /\ Len(pages_images) >= 2
    /\ current_page_index = 0
    /\ pages_images \in Documents

\* ---------------------------------------------------------------- C10
\* C10: previous on page 0, next on the last page, and any navigation with
\* no document leave the index and the pages (and what is displayed)
\* unchanged.
C10_NavigationOutOfRange ==
    [][(\/ last'.op = "prev_page" /\ current_page_index - 1 < 0
        \/ last'.op = "next_page"
             /\ current_page_index + 1 >= Len(pages_images))
       => UNCHANGED <<pages_images, current_page_index, pixmap, lbl_page,
                      prev_btn, next_btn>>]_vars

\* next_page has just been requested on a document of one page.
C10_Witness ==
    /\ last.op = "next_page"
    /\ Len(pages_images) = 1

\* ---------------------------------------------------------------- C11
\* C11: save invoked while zero pages are loaded reports an error to the
\* user and writes no file.
C11_SaveEmptyReportsError ==
    [][(last'.op = "save_pdf" /\ pages_images = <<>>) =>
        /\ last'.msg = "critical"
        /\ last'.written = <<>>]_vars

\* ---------------------------------------------------------------- C12
\* The colour of a held pixel, without its alpha channel.
Colour(p) == <<p[1], p[2], p[3]>>

\* C12: a save that succeeds on N >= 1 held pages writes one document of
\* exactly N pages in the held order, page i having the size and the colours
\* of held page i (so, with no edit since the load, those of the loaded pages).
C12_ExportKeepsPages ==
    [][(last'.op = "save_pdf" /\ last'.msg = "information") =>
        /\ Len(last'.written) = 1
        /\ LET doc == last'.written[1]
           IN  /\ Len(pages_images) >= 1
               /\ Len(doc) = Len(pages_images)
               /\ \A k \in DOMAIN pages_images :
                     /\ doc[k].w = pages_images[k].w
                     /\ doc[k].h = pages_images[k].h
                     /\ DOMAIN doc[k].px = DOMAIN pages_images[k].px
                     /\ \A c \in DOMAIN doc[k].px :
                           doc[k].px[c] = Colour(pages_images[k].px[c])]_vars

\* A document of several pages, one of them RGBA, has just been written with
\* no edit since it was loaded.
C12_Witness ==
    /\ last.op = "save_pdf"
    /\ last.written # <<>>
    /\ Len(pages_images) >= 2
    /\ pages_images \in Documents
    /\ \E k \in DOMAIN pages_images : pages_images[k].mode = "RGBA"

\* ---------------------------------------------------------------- C13
\* C13: save, whether it succeeds, fails in writing or is cancelled at the
\* path prompt, leaves the held pages and the current page index unchanged.
C13_SaveKeepsDocument ==
    [][last'.op = "save_pdf" =>
        UNCHANGED <<pages_images, current_page_index>>]_vars

\* A save has just failed in writing while the second page of an edited
\* document was being viewed.
C13_Witness ==
    /\ last.op = "save_pdf"
    /\ last.msg = "critical"
    /\ Len(pages_images) >= 2
    /\ current_page_index > 0
    /\ pages_images \notin Documents

\* ---------------------------------------------------------------- C14
\* The handler that ran last was a load, a navigation or an edit.
AfterLoadNavigationOrEdit ==
    \/ last.loaded # "none"
    \/ last.op \in {"prev_page", "next_page"}
    \/ (last.op = "mouseReleaseEvent" /\ last.emitted # <<>>)

\* C14: after a load, a navigation or an edit, whenever a document is held
\* the status reads page current_page_index + 1 of the number of held pages
\* and the page displayed is the held page at current_page_index.
C14_StatusMatchesStore ==
    (AfterLoadNavigationOrEdit /\ pages_images # <<>>) =>
        /\ lbl_page = Label("Page", current_page_index + 1, Len(pages_images))
        /\ current_page_index + 1 \in DOMAIN pages_images
        /\ pixmap = <<Convert(pages_images[current_page_index + 1], "RGBA")>>

\* ---------------------------------------------------------------- C15
\* The cell, along one axis, nearest to pixel i of a run of n pixels that is
\* the upscaling of nb cells: the cell whose span of n / nb pixels holds the
\* centre i + 1/2 of the pixel.
NearestCell(i, n, nb) ==
    CHOOSE a \in 0 .. nb - 1 : 2 * a * n <= (2 * i + 1) * nb /\ (2 * i + 1) * nb < 2 * (a + 1) * n

\* C15: the mosaic written into a clamped region of w x h pixels comes from a
\* grid of max(1, w // 8) columns by max(1, h // 8) rows of cells, each black
\* or white: every pixel of the region has the value of the one cell nearest
\* to it under upscaling to w x h, so pixels of the same cell are equal.
C15_MosaicGrid ==
    [][(EditStep /\ pages_images # <<>>) =>
        \A old \in {pages_images[current_page_index + 1]},
           new \in {pages_images'[current_page_index + 1]} :
        \A box \in {ClampBox(old, last'.emitted[1])} :
        \A w \in {box.x2 - box.x1}, h \in {box.y2 - box.y1} :
        \A cols \in {Max(1, w \div block_size)}, rows \in {Max(1, h \div block_size)} :
           (w > 1 /\ h > 1) =>
              \E cell \in [Cells(cols, rows) -> {Black, White}] :
                 \A c \in DOMAIN new.px : InBox(c, box) =>
                    new.px[c] = FromL(cell[<<NearestCell(c[1] - box.x1, w, cols),
                                             NearestCell(c[2] - box.y1, h, rows)>>],
                                      old.mode)]_vars

\* An edit has just painted a region more than one cell long along an axis
\* with cells of both colours.
C15_Witness ==
    /\ last.op = "mouseReleaseEvent"
    /\ last.emitted # <<>>
    /\ pages_images # <<>>
    /\ LET img == pages_images[current_page_index + 1]
           box == ClampBox(img, last.emitted[1])
           w == box.x2 - box.x1
           h == box.y2 - box.y1
       IN  /\ w > 1 /\ h > 1
           /\ w \div block_size >= 2 \/ h \div block_size >= 2
           /\ \E c \in DOMAIN img.px : InBox(c, box) /\ img.px[c] = FromL(Black, img.mode)
           /\ \E c \in DOMAIN img.px : InBox(c, box) /\ img.px[c] = FromL(White, img.mode)
           /\ \A c \in DOMAIN img.px : InBox(c, box) =>
                 img.px[c] \in {FromL(Black, img.mode), FromL(White, img.mode)}

\* ---------------------------------------------------------------- C16
\* The path ends in the recognized document extension, ignoring case.
HasPdfExtension(f) == endswith(lower(f), dot_pdf)

\* The step neither starts a load, nor changes the document or what is
\* shown of it, nor raises an error.
Ignored ==
    /\ last'.loaded = "none"
    /\ last'.msg = "none"
    /\ UNCHANGED <<pages_images, current_page_index, pixmap, lbl_page,
                   rect_items, prev_btn, next_btn>>

\* C16: a load is started only for a path ending in .pdf (in any case): a
\* drop none of whose paths has the extension, and a path picked in the file
\* dialog that lacks it, are ignored.
C16_OnlyPdfPathsLoad ==
    [][/\ \A fs \in Drops, o \in RasterOutcomes :
             (dropEvent(fs, o) /\ \A i \in DOMAIN fs : ~HasPdfExtension(fs[i]))
                 => Ignored
       /\ \A f \in Paths, o \in RasterOutcomes :
             (open_pdf_dialog(f, o) /\ ~HasPdfExtension(f)) => Ignored]_vars

\* ---------------------------------------------------------------- C17
\* The two effects of EditEffect: Blur (radius 15) and Mosaic (block size 8).
EditEffect == {"Blur", "Mosaic"}

\* The values channel ch takes on the pixels of img inside box.
RegionValues(img, box, ch) == { img.px[c][ch] : c \in { d \in DOMAIN img.px : InBox(d, box) } }

\* What each effect does to the pixels of old enclosed by box, new being the
\* page afterwards.  A blur replaces each pixel by a weighted mean of the
\* enclosed pixels, so each colour channel stays between the least and the
\* greatest value it had in the region; a mosaic makes each pixel black or
\* white.
Applied(effect, old, new, box) ==
    IF effect = "Blur"
    THEN \A c \in DOMAIN old.px : InBox(c, box) =>
            \A ch \in 1 .. 3 :
               /\ \E v \in RegionValues(old, box, ch) : v <= new.px[c][ch]
               /\ \E v \in RegionValues(old, box, ch) : new.px[c][ch] <= v
    ELSE \A c \in DOMAIN old.px : InBox(c, box) =>
            new.px[c] \in {FromL(Black, old.mode), FromL(White, old.mode)}

\* C17: a finalized selection is processed with the effect chosen from
\* EditEffect: whichever of Blur and Mosaic is chosen, that effect is the one
\* applied to the enclosed pixels of the current page.
C17_ChosenEffectApplied ==
    [][(EditStep /\ pages_images # <<>>) =>
        LET old == pages_images[current_page_index + 1]
            new == pages_images'[current_page_index + 1]
            box == ClampBox(old, last'.emitted[1])
        IN  ~TooSmall(box) => \A effect \in EditEffect : Applied(effect, old, new, box)]_vars

\* ---------------------------------------------------------------- C18
\* C18: over any sequence of presses, moves and releases, exactly one
\* selection rectangle is in the scene while the tracker is Dragging and none
\* is when it is Idle.
C18_LiveRectTransient ==
    /\ Dragging => rect_items = 1
    /\ Idle => rect_items = 0

\* ---------------------------------------------------------------- C19
\* C19: in every state the previous-page button is enabled exactly when
\* current_page_index > 0 and the next-page button exactly when
\* current_page_index < page count - 1; both are disabled with nothing loaded.
C19_ControlsAgree ==
    /\ prev_btn = (current_page_index > 0)
    /\ next_btn = (current_page_index < Len(pages_images) - 1)
    /\ pages_images = <<>> => (~prev_btn /\ ~next_btn)

\* The second page of a document has just been reached with the next-page
\* button, which is now disabled while the previous-page button is enabled.
C19_Witness ==
    /\ last.op = "next_page"
    /\ Len(pages_images) >= 2
    /\ current_page_index = Len(pages_images) - 1
    /\ prev_btn
    /\ ~next_btn

====
